---- MODULE Spec2Model ----
(***************************************************************************)
(* A model of the spline-interpolation crate: the tridiagonal solver       *)
(* (Thomas algorithm), and the Hermite, Catmull-Rom and natural cubic      *)
(* splines (validating constructors and try_value).                        *)
(*                                                                         *)
(* Numbers.  The crate is generic over V: InterpolationValue, implemented  *)
(* for f32, f64 and rust_decimal::Decimal.  A value of V is modelled as an *)
(* exact rational <<n, d>> in lowest terms with d > 0; rounding is not     *)
(* modelled.  The one place where the numeric types differ in control flow *)
(* is division by zero: Decimal panics, the floats return inf or NaN.  The *)
(* variable V holds the numeric type of the build.  NonFinite stands for   *)
(* an inf or NaN of a float build and for every value computed from one;   *)
(* DivPanic marks a value whose computation panicked and makes the handler *)
(* that computed it panic.                                                 *)
(*                                                                         *)
(* Indices.  Rust slices are 0-based: At(s, i) reads s[i] of the source.   *)
(*                                                                         *)
(* Calls.  call holds the last call (its receiver, moved into it, and its  *)
(* argument) and ret what it returned: Ok, Err, or Panic when it aborted.  *)
(* A behaviour follows one instance from its constructor to the call that  *)
(* consumes it.  Where several points share the queried x the binary       *)
(* search may return any of them; every choice is a behaviour.             *)
(***************************************************************************)
EXTENDS Integers, Sequences, FiniteSets, TLC

VARIABLES V, spline, matrix, call, ret

vars == <<V, spline, matrix, call, ret>>

---------------------------------------------------------------------------
(* Bounds of the model *)

\* longest point sequence handed to a constructor under Spec
MaxRaw == 3
\* longest point sequence handed to a constructor under SpecIncreasing
MaxPoints == 4
\* knot abscissae are the halves 0/2 .. MaxX2/2
MaxX2 == 4
\* largest tridiagonal system
MaxSize == 3

---------------------------------------------------------------------------
(* Exact arithmetic on V *)

Abs(n) == IF n < 0 THEN -n ELSE n

RECURSIVE GCD(_, _)
GCD(a, b) == IF b = 0 THEN a ELSE GCD(b, a % b)

\* n/d in lowest terms, d # 0
Rat(n, d) ==
    LET g == GCD(Abs(n), Abs(d))
        s == IF d < 0 THEN -1 ELSE 1
    IN  <<s * (n \div g), s * (d \div g)>>

Int2V(k) == <<k, 1>>

NonFinite == <<1, 0>>
DivPanic == <<0, 0>>

IsNum(a) == a[2] > 0

\* the result r of an operation on a and b, unless an operand is not a number
Lift(a, b, r) ==
    IF a = DivPanic \/ b = DivPanic THEN DivPanic
    ELSE IF a = NonFinite \/ b = NonFinite THEN NonFinite
    ELSE r

Add(a, b) == Lift(a, b, Rat(a[1] * b[2] + b[1] * a[2], a[2] * b[2]))
Sub(a, b) == Lift(a, b, Rat(a[1] * b[2] - b[1] * a[2], a[2] * b[2]))
Mul(a, b) == Lift(a, b, Rat(a[1] * b[1], a[2] * b[2]))
Neg(a) == Lift(a, a, <<-a[1], a[2]>>)

\* a / b: Decimal's Div panics on a zero divisor, a float's returns inf or NaN
DivIn(v, a, b) ==
    Lift(a, b, IF b[1] = 0
               THEN (IF v = "Decimal" THEN DivPanic ELSE NonFinite)
               ELSE Rat(a[1] * b[2], a[2] * b[1]))

Div(a, b) == DivIn(V, a, b)

\* a < b on numbers (PartialOrd)
Lt(a, b) == a[1] * b[2] < b[1] * a[2]

Zero == Int2V(0)
One == Int2V(1)

\* 0-based indexing of a Rust slice
At(s, i) == s[i + 1]

\* results of the fallible operations
Ok(v) == [tag |-> "Ok", val |-> v]
Err(e, v) == [tag |-> "Err", err |-> e, val |-> v]
Panic(why) == [tag |-> "Panic", why |-> why]

NumericTypes == {"Decimal", "f64"}

---------------------------------------------------------------------------
(* tridiagonal_matrix.rs *)

NoMatrix == [size |-> 0, upper_diagonal |-> <<>>, diagonal |-> <<>>,
             lower_diagonal |-> <<>>]

\* TridiagonalMatrix::try_new
TridiagonalTryNew(upper_diagonal, diagonal, lower_diagonal) ==
    IF ~(Len(upper_diagonal) = Len(lower_diagonal)
         /\ Len(upper_diagonal) + 1 = Len(diagonal))
    THEN Err("MatrixShapeError", Zero)
    ELSE Ok([size |-> Len(diagonal), upper_diagonal |-> upper_diagonal,
             diagonal |-> diagonal, lower_diagonal |-> lower_diagonal])

\* the pivot of row ix >= 1: diagonal[ix] - lower_diagonal[ix - 1] * scratch[ix - 1]
Pivot(lower_diagonal, diagonal, scratch, ix) ==
    Sub(At(diagonal, ix), Mul(At(lower_diagonal, ix - 1), At(scratch, ix - 1)))

\* the forward loop "for ix in 1..matrix_size", from ix on: <<scratch, x>>
RECURSIVE ForwardSweep(_, _, _, _, _, _, _)
ForwardSweep(matrix_size, lower_diagonal, diagonal, upper_diagonal, scratch, x, ix) ==
    IF ix >= matrix_size THEN <<scratch, x>>
    ELSE LET p == Pivot(lower_diagonal, diagonal, scratch, ix)
             scratch2 == IF ix < matrix_size - 1
                         THEN Append(scratch, Div(At(upper_diagonal, ix), p))
                         ELSE scratch
             xi == Div(Sub(At(x, ix), Mul(At(lower_diagonal, ix - 1), At(x, ix - 1))), p)
             x2 == [x EXCEPT ![ix + 1] = xi]
         IN  ForwardSweep(matrix_size, lower_diagonal, diagonal, upper_diagonal,
                          scratch2, x2, ix + 1)

\* BackStart with the backward loop starting one row lower still
BackStart_OneRowLower(matrix_size) == matrix_size - 4

\* the first index of the backward loop "for ix in (0..matrix_size - 2).rev()"
BackStart(matrix_size) == matrix_size - 3

\* the backward loop, from ix down to 0
RECURSIVE BackSubstitute(_, _, _)
BackSubstitute(scratch, x, ix) ==
    IF ix < 0 THEN x
    ELSE LET temp == Mul(At(scratch, ix), At(x, ix + 1))
         IN  BackSubstitute(scratch, [x EXCEPT ![ix + 1] = Sub(At(x, ix), temp)], ix - 1)

HasDivPanic(s) == \E i \in 1..Len(s) : s[i] = DivPanic

\* the body shared by thomas and solve_with_thomas_algorithm_unchecked, for
\* Len(b) = matrix_size >= 1
ThomasBody(matrix_size, lower_diagonal, diagonal, upper_diagonal, b) ==
    IF Len(upper_diagonal) = 0 THEN Panic("index out of bounds")
    ELSE LET scratch0 == <<Div(At(upper_diagonal, 0), At(diagonal, 0))>>
             x0 == [b EXCEPT ![1] = Div(At(b, 0), At(diagonal, 0))]
             fw == ForwardSweep(matrix_size, lower_diagonal, diagonal,
                                upper_diagonal, scratch0, x0, 1)
             x == BackSubstitute(fw[1], fw[2], BackStart(matrix_size))
         IN  IF HasDivPanic(fw[1]) \/ HasDivPanic(fw[2]) \/ HasDivPanic(x)
             THEN Panic("division by zero")
             ELSE Ok(x)

\* thomas (behind TridiagonalMatrix::try_solve)
thomas(matrix_size, lower_diagonal, diagonal, upper_diagonal, b) ==
    IF Len(b) # matrix_size THEN Err("MatrixShapeError", Zero)
    ELSE ThomasBody(matrix_size, lower_diagonal, diagonal, upper_diagonal, b)

\* solve_with_thomas_algorithm_unchecked (behind TridiagonalMatrix::solve)
solve_with_thomas_algorithm_unchecked(matrix_size, lower_diagonal, diagonal, upper_diagonal, b) ==
    IF Len(b) < matrix_size \/ Len(b) = 0 THEN Panic("index out of bounds")
    ELSE ThomasBody(matrix_size, lower_diagonal, diagonal, upper_diagonal, b)

---------------------------------------------------------------------------
(* Point sequences *)

\* the x of a raw tuple or of a stored point
RawX(p) == p[1]

\* the constructors' order loop: temp starts as raw_points[0].0 and follows the
\* previous x; some point has point.x < temp
OutOfOrder(raw_points) ==
    \E i \in 1..Len(raw_points) :
        Lt(RawX(raw_points[i]), RawX(raw_points[IF i = 1 THEN 1 ELSE i - 1]))

\* slice::binary_search_by(|point| point.x.partial_cmp(&x)) on points sorted by
\* x: Ok(pos) for a pos that matches (any of them, when several do), else
\* Err(pos) with pos the insertion position
binary_search_by(points, x) ==
    LET hits == {i \in 0..(Len(points) - 1) : At(points, i).x = x}
    IN  IF hits # {}
        THEN {[found |-> TRUE, pos |-> i] : i \in hits}
        ELSE {[found |-> FALSE,
               pos |-> Cardinality({i \in 0..(Len(points) - 1) : Lt(At(points, i).x, x)})]}

\* d.transpose() * (m * f): m by rows, as Matrix4::new lists it
Dot4(a, b) ==
    Add(Add(Add(Mul(a[1], b[1]), Mul(a[2], b[2])), Mul(a[3], b[3])), Mul(a[4], b[4]))

MatVec4(m, f) == <<Dot4(m[1], f), Dot4(m[2], f), Dot4(m[3], f), Dot4(m[4], f)>>

NoSpline == [kind |-> "None", points |-> <<>>]

---------------------------------------------------------------------------
(* interpolation/hermite_spline.rs *)

\* HermiteSpline::try_new: raw_points[0] is read before anything is checked
HermiteTryNew(raw_points) ==
    IF Len(raw_points) = 0 THEN Panic("index out of bounds")
    ELSE IF OutOfOrder(raw_points) THEN Err("PointOrderError", Zero)
    ELSE Ok([kind |-> "Hermite",
             points |-> [i \in 1..Len(raw_points) |->
                            [x |-> raw_points[i][1], y |-> raw_points[i][2],
                             dydx |-> raw_points[i][3]]]])

\* the basis matrix m
HermiteM ==
    << <<Int2V(2), Int2V(-2), One, One>>,
       <<Int2V(-3), Int2V(3), Int2V(-2), Neg(One)>>,
       <<Zero, Zero, One, Zero>>,
       <<One, Zero, Zero, Zero>> >>

\* the Hermite cubic of the segment from points[pos] to points[pos + 1], at x
HermiteSegment(points, pos, x) ==
    LET point == At(points, pos)
        next_point == At(points, pos + 1)
        h == Sub(next_point.x, point.x)
        delta == Div(Sub(x, point.x), h)
        delta2 == Mul(delta, delta)
        delta3 == Mul(delta2, delta)
        d == <<delta3, delta2, delta, Int2V(1)>>
        f == <<point.y, next_point.y, Mul(point.dydx, h), Mul(next_point.dydx, h)>>
    IN  Dot4(d, MatVec4(HermiteM, f))

\* HermiteSpline::try_value, the binary search having returned r
HermiteTryValue(points, x, r) ==
    IF r.found THEN Ok(At(points, r.pos).y)
    ELSE IF r.pos = 0 THEN Err("OutOfLowerBound", x)
    ELSE IF r.pos > Len(points) THEN Err("OutOfUpperBound", x)
    ELSE LET pos == r.pos - 1
         IN  IF pos + 1 >= Len(points) THEN Panic("index out of bounds")
             ELSE LET v == HermiteSegment(points, pos, x)
                  IN  IF v = DivPanic THEN Panic("division by zero") ELSE Ok(v)

---------------------------------------------------------------------------
(* hermite_spline.rs: the earlier Hermite spline, on f64 only, which panics    *)
(* where the generic one returns an error                                     *)

\* HermiteSpline::new
HermiteF64New(raw_points) ==
    IF Len(raw_points) = 0 THEN Panic("index out of bounds")
    ELSE IF OutOfOrder(raw_points) THEN Panic("points must be sorted")
    ELSE Ok([kind |-> "HermiteF64",
             points |-> [i \in 1..Len(raw_points) |->
                            [x |-> raw_points[i][1], y |-> raw_points[i][2],
                             dydx |-> raw_points[i][3]]]])

\* HermiteSpline::value, the binary search having returned r: a match is
\* evaluated like any other x, on the segment that starts at it
HermiteF64Value(points, x, r) ==
    IF ~r.found /\ r.pos = 0 THEN Panic("need extrapolation")
    ELSE IF ~r.found /\ r.pos > Len(points) THEN Panic("need extrapolation")
    ELSE LET pos == IF r.found THEN r.pos ELSE r.pos - 1
         IN  IF pos + 1 >= Len(points) THEN Panic("index out of bounds")
             ELSE Ok(HermiteSegment(points, pos, x))

---------------------------------------------------------------------------
(* interpolation/catmull_rom_spline.rs *)

\* CatmullRomSpline::try_new
CatmullRomTryNew(raw_points) ==
    IF Len(raw_points) < 3 THEN Err("InsufficientPointsError", Int2V(Len(raw_points)))
    ELSE IF OutOfOrder(raw_points) THEN Err("PointOrderError", Zero)
    ELSE Ok([kind |-> "CatmullRom",
             points |-> [i \in 1..Len(raw_points) |->
                            [x |-> raw_points[i][1], y |-> raw_points[i][2]]]])

\* which basis the segment starting at points[pos] is evaluated with
CatmullRomBranch(points, pos) ==
    IF pos = 0 THEN "first"
    ELSE IF pos + 2 = Len(points) THEN "last"
    ELSE "interior"

\* the first segment: beta, the matrix and the vector it multiplies
FirstBasis(points, pos) ==
    LET point == At(points, pos)
        next_point == At(points, pos + 1)
        h == Sub(next_point.x, point.x)
        next_next_point == At(points, pos + 2)
        next_h == Sub(next_next_point.x, next_point.x)
        beta == Div(h, Add(h, next_h))
    IN  MatVec4(<< <<Zero, Sub(One, beta), Neg(One), beta>>,
                   <<Zero, Add(Neg(One), beta), One, Neg(beta)>>,
                   <<Zero, Neg(One), One, Zero>>,
                   <<Zero, One, Zero, Zero>> >>,
                <<Zero, point.y, next_point.y, next_next_point.y>>)

\* LastBasis with prev_h measured from point instead of from next_point
LastBasis_PrevFromPoint(points, pos) ==
    LET point == At(points, pos)
        next_point == At(points, pos + 1)
        h == Sub(next_point.x, point.x)
        prev_point == At(points, pos - 1)
        prev_h == Sub(point.x, prev_point.x)
        alpha == Div(h, Add(h, prev_h))
    IN  MatVec4(<< <<Neg(alpha), One, Mul(Neg(One), alpha), Zero>>,
                   <<Mul(Int2V(2), alpha), Int2V(-2),
                     Sub(Int2V(2), Mul(Int2V(2), alpha)), Zero>>,
                   <<Neg(alpha), Zero, alpha, Zero>>,
                   <<Zero, One, Zero, Zero>> >>,
                <<prev_point.y, point.y, next_point.y, Zero>>)

\* the last segment: alpha, the matrix and the vector it multiplies
LastBasis(points, pos) ==
    LET point == At(points, pos)
        next_point == At(points, pos + 1)
        h == Sub(next_point.x, point.x)
        prev_point == At(points, pos - 1)
        prev_h == Sub(next_point.x, prev_point.x)
        alpha == Div(h, Add(h, prev_h))
    IN  MatVec4(<< <<Neg(alpha), One, Mul(Neg(One), alpha), Zero>>,
                   <<Mul(Int2V(2), alpha), Int2V(-2),
                     Sub(Int2V(2), Mul(Int2V(2), alpha)), Zero>>,
                   <<Neg(alpha), Zero, alpha, Zero>>,
                   <<Zero, One, Zero, Zero>> >>,
                <<prev_point.y, point.y, next_point.y, Zero>>)

\* an interior segment: alpha, beta, the matrix and the vector it multiplies
InteriorBasis(points, pos) ==
    LET point == At(points, pos)
        next_point == At(points, pos + 1)
        h == Sub(next_point.x, point.x)
        prev_point == At(points, pos - 1)
        prev_h == Sub(next_point.x, prev_point.x)
        alpha == Div(h, Add(h, prev_h))
        next_next_point == At(points, pos + 2)
        next_h == Sub(next_next_point.x, next_point.x)
        beta == Div(h, Add(h, next_h))
    IN  MatVec4(<< <<Neg(alpha), Sub(Int2V(2), beta), Add(Int2V(-2), alpha), beta>>,
                   <<Mul(Int2V(2), alpha), Sub(beta, Int2V(3)),
                     Sub(Int2V(3), Mul(Int2V(2), alpha)), Neg(beta)>>,
                   <<Neg(alpha), Zero, alpha, Zero>>,
                   <<Zero, One, Zero, Zero>> >>,
                <<prev_point.y, point.y, next_point.y, next_next_point.y>>)

\* the Catmull-Rom cubic of the segment from points[pos] to points[pos + 1], at x
CatmullRomSegment(points, pos, x) ==
    LET point == At(points, pos)
        next_point == At(points, pos + 1)
        h == Sub(next_point.x, point.x)
        delta == Div(Sub(x, point.x), h)
        delta2 == Mul(delta, delta)
        delta3 == Mul(delta2, delta)
        d == <<delta3, delta2, delta, One>>
        branch == CatmullRomBranch(points, pos)
    IN  Dot4(d, IF branch = "first" THEN FirstBasis(points, pos)
                ELSE IF branch = "last" THEN LastBasis(points, pos)
                ELSE InteriorBasis(points, pos))

\* CatmullRomSpline::try_value, the binary search having returned r
CatmullRomTryValue(points, x, r) ==
    IF r.found THEN Ok(At(points, r.pos).y)
    ELSE IF r.pos = 0 THEN Err("OutOfLowerBound", x)
    ELSE IF r.pos > Len(points) THEN Err("OutOfUpperBound", x)
    ELSE LET pos == r.pos - 1
         IN  IF pos + 1 >= Len(points) THEN Panic("index out of bounds")
             ELSE LET v == CatmullRomSegment(points, pos, x)
                  IN  IF v = DivPanic THEN Panic("division by zero") ELSE Ok(v)

---------------------------------------------------------------------------
(* natural_cubic_spline.rs *)

\* the rows of the system, du (handed over as the upper diagonal), d and dl
NaturalDu(raw_points) ==
    [i \in 1..(Len(raw_points) - 1) |->
        IF i - 1 = 0 THEN Zero
        ELSE Div(Sub(At(raw_points, i)[1], At(raw_points, i - 1)[1]), Int2V(6))]

\* NaturalD with the interior diagonal (h + h_next) / 6 instead of / 3
NaturalD_SixthDiagonal(raw_points) ==
    [j \in 1..Len(raw_points) |->
        LET i == j - 1
        IN  IF i = 0 \/ i + 1 = Len(raw_points) THEN One
            ELSE LET h == Sub(At(raw_points, i)[1], At(raw_points, i - 1)[1])
                     h_next == Sub(At(raw_points, i + 1)[1], At(raw_points, i)[1])
                 IN  Div(Add(h, h_next), Int2V(6))]

NaturalD(raw_points) ==
    [j \in 1..Len(raw_points) |->
        LET i == j - 1
        IN  IF i = 0 \/ i + 1 = Len(raw_points) THEN One
            ELSE LET h == Sub(At(raw_points, i)[1], At(raw_points, i - 1)[1])
                     h_next == Sub(At(raw_points, i + 1)[1], At(raw_points, i)[1])
                 IN  Div(Add(h, h_next), Int2V(3))]

NaturalDl(raw_points) ==
    [i \in 1..(Len(raw_points) - 1) |->
        IF i + 1 = Len(raw_points) THEN Zero
        ELSE Div(Sub(At(raw_points, i)[1], At(raw_points, i - 1)[1]), Int2V(6))]

\* NaturalB with the two slopes added instead of subtracted
NaturalB_SlopesAdded(raw_points) ==
    [j \in 1..Len(raw_points) |->
        LET i == j - 1
        IN  IF i = 0 \/ i + 1 = Len(raw_points) THEN Zero
            ELSE Add(Div(Sub(At(raw_points, i + 1)[2], At(raw_points, i)[2]),
                         Sub(At(raw_points, i + 1)[1], At(raw_points, i)[1])),
                     Div(Sub(At(raw_points, i)[2], At(raw_points, i - 1)[2]),
                         Sub(At(raw_points, i)[1], At(raw_points, i - 1)[1])))]

\* the right-hand side b
NaturalB(raw_points) ==
    [j \in 1..Len(raw_points) |->
        LET i == j - 1
        IN  IF i = 0 \/ i + 1 = Len(raw_points) THEN Zero
            ELSE Sub(Div(Sub(At(raw_points, i + 1)[2], At(raw_points, i)[2]),
                         Sub(At(raw_points, i + 1)[1], At(raw_points, i)[1])),
                     Div(Sub(At(raw_points, i)[2], At(raw_points, i - 1)[2]),
                         Sub(At(raw_points, i)[1], At(raw_points, i - 1)[1])))]

\* NaturalCubicSpline::try_new: the system is built and solved (both results
\* unwrapped) before the order of the points is checked
NaturalCubicTryNew(raw_points) ==
    IF Len(raw_points) < 3 THEN Err("InsufficientPointsError", Int2V(Len(raw_points)))
    ELSE LET du == NaturalDu(raw_points)
             d == NaturalD(raw_points)
             dl == NaturalDl(raw_points)
             b == NaturalB(raw_points)
         IN  IF HasDivPanic(b) THEN Panic("division by zero")
             ELSE LET m == TridiagonalTryNew(du, d, dl)
                  IN  IF m.tag # "Ok" THEN Panic("unwrap on Err")
                      ELSE LET derivatives == thomas(m.val.size, m.val.lower_diagonal,
                                                     m.val.diagonal, m.val.upper_diagonal, b)
                           IN  IF derivatives.tag = "Panic" THEN derivatives
                               ELSE IF derivatives.tag # "Ok" THEN Panic("unwrap on Err")
                               ELSE IF OutOfOrder(raw_points) THEN Err("PointOrderError", Zero)
                               ELSE Ok([kind |-> "NaturalCubic",
                                        points |-> [i \in 1..Len(raw_points) |->
                                            [x |-> raw_points[i][1], y |-> raw_points[i][2],
                                             z |-> derivatives.val[i]]]])

\* the cubic of the segment from points[pos] to points[pos + 1], at x
NaturalCubicSegment(points, pos, x) ==
    LET point == At(points, pos)
        next_point == At(points, pos + 1)
        h == Sub(next_point.x, point.x)
        six == Int2V(6)
        dn == Sub(next_point.x, x)
        dp == Sub(x, point.x)
    IN  Add(Add(Add(Mul(Div(Div(Mul(Mul(dn, dn), dn), six), h), point.z),
                    Mul(Div(Div(Mul(Mul(dp, dp), dp), six), h), next_point.z)),
                Mul(dn, Sub(Div(point.y, h), Mul(Div(h, six), point.z)))),
            Mul(dp, Sub(Div(next_point.y, h), Mul(Div(h, six), next_point.z))))

\* NaturalCubicSpline::try_value, the binary search having returned r
NaturalCubicTryValue(points, x, r) ==
    IF r.found THEN Ok(At(points, r.pos).y)
    ELSE IF r.pos = 0 THEN Err("OutOfLowerBound", x)
    ELSE IF r.pos > Len(points) THEN Err("OutOfUpperBound", x)
    ELSE LET pos == r.pos - 1
         IN  IF pos + 1 >= Len(points) THEN Panic("index out of bounds")
             ELSE LET v == NaturalCubicSegment(points, pos, x)
                  IN  IF v = DivPanic THEN Panic("division by zero") ELSE Ok(v)

---------------------------------------------------------------------------
(* The callers' inputs *)

XVals == {Rat(k, 2) : k \in 0..MaxX2}
YVals == {Zero, Rat(1, 2), One}
DVals == {Int2V(-1)}
\* the queries: the quarters from below the first abscissa to above the last
QVals == {Rat(k, 4) : k \in (-1)..(2 * MaxX2 + 1)}
MatVals == {Zero, One, Int2V(2)}
BVals == {Zero, One}

SeqsUpTo(S, n) == UNION {[1..k -> S] : k \in 0..n}

\* any sequence of up to MaxRaw raw points, in any order
RawInputs2 == SeqsUpTo(XVals \X YVals, MaxRaw)
RawInputs3 == SeqsUpTo(XVals \X YVals \X DVals, MaxRaw)

RECURSIVE Ascending(_)
Ascending(ks) ==
    IF ks = {} THEN <<>>
    ELSE LET k == CHOOSE m \in ks : \A o \in ks : m <= o
         IN  <<Rat(k, 2)>> \o Ascending(ks \ {k})

\* the sequences of 3 to MaxPoints raw points with strictly increasing x
IncreasingInputs ==
    UNION {{[i \in 1..Len(xs) |-> <<xs[i], ys[i]>>] : ys \in [1..Len(xs) -> YVals]} :
           xs \in {Ascending(ks) : ks \in {c \in SUBSET (0..MaxX2) :
                                                Cardinality(c) \in 3..MaxPoints}}}

---------------------------------------------------------------------------
(* The state machine: one instance from its construction to its consumption *)

NoCall == [op |-> "none", kind |-> "None", self |-> NoSpline, arg |-> <<>>]
NoRet == [tag |-> "None"]

Init ==
    /\ V \in NumericTypes
    /\ spline = NoSpline
    /\ matrix = NoMatrix
    /\ call = NoCall
    /\ ret = NoRet

\* no constructor has been called yet
Fresh == call = NoCall

\* the caller holds an instance of the kind
Holds(kind) == ret.tag # "Panic" /\ spline.kind = kind

\* a constructor call: Ok(instance) hands the instance to the caller
Construct(kind, raw_points, r) ==
    /\ Fresh
    /\ call' = [op |-> "try_new", kind |-> kind, self |-> NoSpline, arg |-> raw_points]
    /\ ret' = r
    /\ spline' = IF r.tag = "Ok" THEN r.val ELSE NoSpline
    /\ UNCHANGED <<V, matrix>>

CallHermiteTryNew(raw_points) ==
    Construct("Hermite", raw_points, HermiteTryNew(raw_points))

\* the earlier Hermite spline exists for f64 only
CallHermiteF64New(raw_points) ==
    V = "f64" /\ Construct("HermiteF64", raw_points, HermiteF64New(raw_points))

CallCatmullRomTryNew(raw_points) ==
    Construct("CatmullRom", raw_points, CatmullRomTryNew(raw_points))

CallNaturalCubicTryNew(raw_points) ==
    Construct("NaturalCubic", raw_points, NaturalCubicTryNew(raw_points))

\* try_value(self, x) takes the instance by value: the caller's binding is moved
\* into the call and dropped when it returns
Evaluate(kind, x, r) ==
    /\ Holds(kind)
    /\ call' = [op |-> "try_value", kind |-> kind, self |-> spline, arg |-> x]
    /\ ret' = r
    /\ spline' = NoSpline
    /\ UNCHANGED <<V, matrix>>

CallHermiteTryValue(x) ==
    \E r \in binary_search_by(spline.points, x) :
        Evaluate("Hermite", x, HermiteTryValue(spline.points, x, r))

CallHermiteF64Value(x) ==
    \E r \in binary_search_by(spline.points, x) :
        Evaluate("HermiteF64", x, HermiteF64Value(spline.points, x, r))

CallCatmullRomTryValue(x) ==
    \E r \in binary_search_by(spline.points, x) :
        Evaluate("CatmullRom", x, CatmullRomTryValue(spline.points, x, r))

CallNaturalCubicTryValue(x) ==
    \E r \in binary_search_by(spline.points, x) :
        Evaluate("NaturalCubic", x, NaturalCubicTryValue(spline.points, x, r))

Next ==
    \/ Fresh /\ \E raw_points \in RawInputs3 : CallHermiteTryNew(raw_points)
    \/ Fresh /\ \E raw_points \in RawInputs3 : CallHermiteF64New(raw_points)
    \/ Fresh /\ \E raw_points \in RawInputs2 : CallCatmullRomTryNew(raw_points)
    \/ Fresh /\ \E raw_points \in RawInputs2 : CallNaturalCubicTryNew(raw_points)
    \/ Holds("Hermite") /\ \E x \in QVals : CallHermiteTryValue(x)
    \/ Holds("HermiteF64") /\ \E x \in QVals : CallHermiteF64Value(x)
    \/ Holds("CatmullRom") /\ \E x \in QVals : CallCatmullRomTryValue(x)
    \/ Holds("NaturalCubic") /\ \E x \in QVals : CallNaturalCubicTryValue(x)

Spec == Init /\ [][Next]_vars

\* the same machine fed only point sequences with strictly increasing x
NextIncreasing ==
    \/ Fresh /\ \E raw_points \in IncreasingInputs : CallCatmullRomTryNew(raw_points)
    \/ Fresh /\ \E raw_points \in IncreasingInputs : CallNaturalCubicTryNew(raw_points)
    \/ Holds("CatmullRom") /\ \E x \in QVals : CallCatmullRomTryValue(x)
    \/ Holds("NaturalCubic") /\ \E x \in QVals : CallNaturalCubicTryValue(x)

SpecIncreasing == Init /\ [][NextIncreasing]_vars

---------------------------------------------------------------------------
(* The solver on its own *)

DiagInputs == SeqsUpTo(MatVals, MaxSize)
OffDiagInputs == SeqsUpTo(MatVals, MaxSize - 1)
BInputs == SeqsUpTo(BVals, MaxSize)

CallTridiagonalTryNew(upper_diagonal, diagonal, lower_diagonal) ==
    LET r == TridiagonalTryNew(upper_diagonal, diagonal, lower_diagonal)
    IN  /\ Fresh
        /\ call' = [op |-> "TridiagonalMatrix::try_new", kind |-> "None", self |-> NoMatrix,
                    arg |-> <<upper_diagonal, diagonal, lower_diagonal>>]
        /\ ret' = r
        /\ matrix' = IF r.tag = "Ok" THEN r.val ELSE NoMatrix
        /\ UNCHANGED <<V, spline>>

\* the caller holds a matrix
HoldsMatrix == ret.tag # "Panic" /\ matrix # NoMatrix

\* try_solve(self, b) and solve(self, b) take the matrix by value
Solve(op, b, r) ==
    /\ HoldsMatrix
    /\ call' = [op |-> op, kind |-> "None", self |-> matrix, arg |-> b]
    /\ ret' = r
    /\ matrix' = NoMatrix
    /\ UNCHANGED <<V, spline>>

CallTrySolve(b) ==
    Solve("try_solve", b,
          thomas(matrix.size, matrix.lower_diagonal, matrix.diagonal, matrix.upper_diagonal, b))

CallSolve(b) ==
    Solve("solve", b,
          solve_with_thomas_algorithm_unchecked(matrix.size, matrix.lower_diagonal,
                                                matrix.diagonal, matrix.upper_diagonal, b))

NextTridiagonal ==
    \/ Fresh /\ \E u \in OffDiagInputs, d \in DiagInputs, l \in OffDiagInputs :
                    CallTridiagonalTryNew(u, d, l)
    \/ HoldsMatrix /\ \E b \in BInputs : CallTrySolve(b)
    \/ HoldsMatrix /\ \E b \in BInputs : CallSolve(b)

SpecTridiagonal == Init /\ [][NextTridiagonal]_vars

---------------------------------------------------------------------------
(* Vocabulary of the properties *)

\* the instance a try_value call received, and its knots
Self == call.self
Knots == Self.points
NKnots == Len(Knots)

Evaluated == call.op = "try_value"
Constructed == call.op = "try_new"

\* the x of consecutive raw points never decreases / always increases
NonDecreasing(raw_points) ==
    \A i \in 2..Len(raw_points) : ~Lt(raw_points[i][1], raw_points[i - 1][1])
StrictlyIncreasing(points) ==
    \A i \in 2..Len(points) : Lt(points[i].x, points[i - 1].x) = FALSE
                               /\ points[i].x # points[i - 1].x

MinPoints(kind) == IF kind \in {"Hermite", "HermiteF64"} THEN 2 ELSE 3

\* (C1) A query strictly above the largest knot x returns
\* Err(OutOfUpperBound(x)), for every variant: it neither panics nor returns
\* a number.
C1_AboveRangeIsOutOfUpperBound ==
    (Evaluated /\ NKnots >= MinPoints(call.kind) /\ \A i \in 1..NKnots : Lt(Knots[i].x, call.arg))
        => ret = Err("OutOfUpperBound", call.arg)

\* (C3) A constructor handed n points, n below the variant's minimum (2 for
\* Hermite, 3 for Catmull-Rom and natural cubic), returns
\* Err(InsufficientPointsError(n)) and does not panic.
C3_TooFewPointsIsInsufficientPoints ==
    (Constructed /\ Len(call.arg) < MinPoints(call.kind))
        => ret = Err("InsufficientPointsError", Int2V(Len(call.arg)))

\* (C4) A constructor handed enough points, one of which has an x below the
\* x of the point before it, returns Err(PointOrderError) and does not panic,
\* whatever the numeric type.
C4_DecreasingXIsPointOrderError ==
    (Constructed /\ Len(call.arg) >= MinPoints(call.kind) /\ ~NonDecreasing(call.arg))
        => ret = Err("PointOrderError", Zero)

\* (C5) On an accepted point set, try_value(x[i]) returns exactly the stored
\* y[i], for every index i of the point sequence.
C5_KnotQueryReturnsStoredY ==
    (Evaluated /\ NKnots >= MinPoints(call.kind))
        => \A i \in 1..NKnots : Knots[i].x = call.arg => ret = Ok(Knots[i].y)

\* (C6) A try_value call that returns leaves the instance and its points
\* unchanged and still held by the caller, so that it can be evaluated again.
C6_InstanceSurvivesEvaluation ==
    (Evaluated /\ NKnots >= MinPoints(call.kind) /\ ret.tag # "Panic") => spline = Self

\* the pivots the claim names: diag[0], and diag[i] - lower[i-1] * c'[i-1]
\* with c'[i] = upper[i] / pivot[i]
RECURSIVE PivotOf(_, _)
PivotOf(m, i) ==
    IF i = 0 THEN At(m.diagonal, 0)
    ELSE Sub(At(m.diagonal, i),
             Mul(At(m.lower_diagonal, i - 1),
                 Div(At(m.upper_diagonal, i - 1), PivotOf(m, i - 1))))

NoZeroPivot(m) ==
    \A i \in 0..(m.size - 1) : IsNum(PivotOf(m, i)) /\ PivotOf(m, i) # Zero

\* row i of A * x
RowTimes(m, x, i) ==
    Add(Add(IF i > 0 THEN Mul(At(m.lower_diagonal, i - 1), At(x, i - 1)) ELSE Zero,
            Mul(At(m.diagonal, i), At(x, i))),
        IF i < m.size - 1 THEN Mul(At(m.upper_diagonal, i), At(x, i + 1)) ELSE Zero)

Solved == call.op \in {"try_solve", "solve"}

\* (C2) For an accepted system of size n >= 1 and a right-hand side b of
\* length n with no zero pivot, the solver returns x of length n with
\* A * x = b in every row (so an identity system returns b).
C2_SolutionSatisfiesSystem ==
    (Solved /\ Len(call.arg) = call.self.size /\ NoZeroPivot(call.self))
        => /\ ret.tag = "Ok"
           /\ Len(ret.val) = call.self.size
           /\ \A i \in 0..(call.self.size - 1) :
                  RowTimes(call.self, ret.val, i) = At(call.arg, i)

\* the derivative at a of the cubic p, from four of its values (exact for a
\* polynomial of degree 3 or less): (-11 p(a) + 18 p(a+1) - 9 p(a+2) + 2 p(a+3)) / 6
CubicSlope(p0, p1, p2, p3) ==
    Div(Add(Sub(Sub(Mul(Int2V(18), p1), Mul(Int2V(11), p0)), Mul(Int2V(9), p2)),
            Mul(Int2V(2), p3)),
        Int2V(6))

\* the first derivative at a of the natural cubic segment starting at points[pos]
NaturalCubicSlope(points, pos, a) ==
    CubicSlope(NaturalCubicSegment(points, pos, a),
               NaturalCubicSegment(points, pos, Add(a, Int2V(1))),
               NaturalCubicSegment(points, pos, Add(a, Int2V(2))),
               NaturalCubicSegment(points, pos, Add(a, Int2V(3))))

HoldsNaturalCubic ==
    spline.kind = "NaturalCubic" /\ Len(spline.points) >= 3
    /\ StrictlyIncreasing(spline.points)

\* (C7) In a natural cubic spline built from n >= 3 points with strictly
\* increasing x, the cubics of the two segments that meet at an interior knot
\* x[i] both take the value y[i] there and have the same first derivative
\* there.
C7_NaturalCubicIsC1AtInteriorKnots ==
    HoldsNaturalCubic =>
        \A i \in 1..(Len(spline.points) - 2) :
            LET pts == spline.points
                knot == At(pts, i)
            IN  /\ NaturalCubicSegment(pts, i - 1, knot.x) = knot.y
                /\ NaturalCubicSegment(pts, i, knot.x) = knot.y
                /\ NaturalCubicSlope(pts, i - 1, knot.x) = NaturalCubicSlope(pts, i, knot.x)

\* a natural cubic spline of four knots is held whose curvature at an interior
\* knot and whose slope there are not zero
C7_Witness ==
    /\ HoldsNaturalCubic
    /\ Len(spline.points) = 4
    /\ \E i \in 1..2 :
          /\ At(spline.points, i).z # Zero
          /\ NaturalCubicSlope(spline.points, i, At(spline.points, i).x) # Zero

\* the points lie on one straight line
Collinear(points) ==
    \A i \in 3..Len(points) :
        Mul(Sub(points[i].y, points[1].y), Sub(points[2].x, points[1].x))
            = Mul(Sub(points[2].y, points[1].y), Sub(points[i].x, points[1].x))

\* the value at x of the line through the first two points
LineAt(points, x) ==
    Add(points[1].y,
        Mul(Div(Sub(points[2].y, points[1].y), Sub(points[2].x, points[1].x)),
            Sub(x, points[1].x)))

\* the points [(0, 1), (0.5, 0.5), (1, 0)] of the crate's tests
IsTestPoints(points) ==
    /\ Len(points) = 3
    /\ <<points[1].x, points[1].y>> = <<Zero, One>>
    /\ <<points[2].x, points[2].y>> = <<Rat(1, 2), Rat(1, 2)>>
    /\ <<points[3].x, points[3].y>> = <<One, Zero>>

EvaluatedNaturalCubic ==
    Evaluated /\ call.kind = "NaturalCubic" /\ StrictlyIncreasing(Knots)

\* (C8) A natural cubic spline built from points on one straight line
\* (strictly increasing x) has every second derivative zero, and try_value(x)
\* returns the value of the line for every x strictly inside the range; on
\* [(0, 1), (0.5, 0.5), (1, 0)], try_value(0.75) returns exactly 0.25.
C8_CollinearPointsGiveTheLine ==
    /\ (HoldsNaturalCubic /\ Collinear(spline.points))
          => \A i \in 1..Len(spline.points) : spline.points[i].z = Zero
    /\ (EvaluatedNaturalCubic /\ Collinear(Knots)
         /\ Lt(Knots[1].x, call.arg) /\ Lt(call.arg, Knots[NKnots].x))
          => ret = Ok(LineAt(Knots, call.arg))
    /\ (EvaluatedNaturalCubic /\ IsTestPoints(Knots) /\ call.arg = Rat(3, 4))
          => ret = Ok(Rat(1, 4))

\* try_value(0.75) has returned on the natural cubic spline of the test points
C8_Witness ==
    /\ EvaluatedNaturalCubic
    /\ IsTestPoints(Knots)
    /\ call.arg = Rat(3, 4)
    /\ ret = Ok(Rat(1, 4))

\* the last-segment cubic on (y0, y1, y2) at t, for the ratio alpha:
\* [t^3, t^2, t, 1] times the last-segment matrix times (y0, y1, y2, 0)
LastSegmentCubic(y0, y1, y2, alpha, t) ==
    LET c3 == Sub(Sub(y1, Mul(alpha, y0)), Mul(alpha, y2))
        c2 == Add(Sub(Mul(Mul(Int2V(2), alpha), y0), Mul(Int2V(2), y1)),
                  Mul(Sub(Int2V(2), Mul(Int2V(2), alpha)), y2))
        c1 == Sub(Mul(alpha, y2), Mul(alpha, y0))
    IN  Add(Add(Add(Mul(c3, Mul(Mul(t, t), t)), Mul(c2, Mul(t, t))), Mul(c1, t)), y1)

EvaluatedCatmullRom3 ==
    /\ Evaluated /\ call.kind = "CatmullRom" /\ NKnots = 3
    /\ Lt(Knots[2].x, call.arg) /\ Lt(call.arg, Knots[3].x)

\* (C9) On a Catmull-Rom spline of three points a query strictly between
\* x[1] and x[2] is evaluated with the last-segment basis (the case
\* pos + 2 == n) applied to (y[0], y[1], y[2]), with alpha = h / (h + prev_h),
\* h = x[2] - x[1] and prev_h = x[2] - x[0]; on [(0, 1), (0.5, 0.5), (1, 0)],
\* try_value(0.75) returns 13/48.
C9_ThreePointLastSegment ==
    /\ EvaluatedCatmullRom3 =>
          LET h == Sub(Knots[3].x, Knots[2].x)
              alpha == Div(h, Add(h, Sub(Knots[3].x, Knots[1].x)))
              t == Div(Sub(call.arg, Knots[2].x), h)
          IN  /\ CatmullRomBranch(Knots, 1) = "last"
              /\ ret = Ok(LastSegmentCubic(Knots[1].y, Knots[2].y, Knots[3].y, alpha, t))
    /\ (EvaluatedCatmullRom3 /\ IsTestPoints(Knots) /\ call.arg = Rat(3, 4))
          => ret = Ok(Rat(13, 48))

\* try_value(0.75) has returned on the Catmull-Rom spline of the test points
C9_Witness ==
    /\ EvaluatedCatmullRom3
    /\ IsTestPoints(Knots)
    /\ call.arg = Rat(3, 4)
    /\ ret = Ok(Rat(13, 48))

\* (C10) In a Catmull-Rom spline with strictly increasing x, the cubic of
\* every segment i (first, last or interior basis) equals y[i] at t = 0 and
\* y[i+1] at t = 1, so the curve is continuous at every knot and agrees with
\* the result at the knot itself.
C10_SegmentsMeetTheirKnots ==
    (spline.kind = "CatmullRom" /\ StrictlyIncreasing(spline.points)) =>
        \A pos \in 0..(Len(spline.points) - 2) :
            LET pts == spline.points
            IN  /\ CatmullRomSegment(pts, pos, At(pts, pos).x) = At(pts, pos).y
                /\ CatmullRomSegment(pts, pos, At(pts, pos + 1).x) = At(pts, pos + 1).y

\* the first derivative in x, at a, of the Catmull-Rom cubic of the segment
\* starting at points[pos]
CatmullRomSlope(points, pos, a) ==
    CubicSlope(CatmullRomSegment(points, pos, a),
               CatmullRomSegment(points, pos, Add(a, Int2V(1))),
               CatmullRomSegment(points, pos, Add(a, Int2V(2))),
               CatmullRomSegment(points, pos, Add(a, Int2V(3))))

\* the finite-difference tangent at the interior knot i:
\* (y[i+1] - y[i-1]) / (h[i-1] + h[i]), h[k] = x[k+1] - x[k]
FiniteDifferenceTangent(points, i) ==
    Div(Sub(At(points, i + 1).y, At(points, i - 1).y),
        Add(Sub(At(points, i).x, At(points, i - 1).x),
            Sub(At(points, i + 1).x, At(points, i).x)))

HoldsCatmullRom ==
    spline.kind = "CatmullRom" /\ Len(spline.points) >= 3
    /\ StrictlyIncreasing(spline.points)

\* (C11) In a Catmull-Rom spline with strictly increasing x, at every
\* interior knot x[i] the derivative in x of the cubic of the segment ending
\* there and of the cubic of the segment starting there both equal the
\* finite-difference tangent (y[i+1] - y[i-1]) / (h[i-1] + h[i]).
C11_KnotSlopeIsFiniteDifference ==
    HoldsCatmullRom =>
        \A i \in 1..(Len(spline.points) - 2) :
            LET pts == spline.points
                knot == At(pts, i)
            IN  /\ CatmullRomSlope(pts, i - 1, knot.x) = FiniteDifferenceTangent(pts, i)
                /\ CatmullRomSlope(pts, i, knot.x) = FiniteDifferenceTangent(pts, i)

\* the half of (C11) about the segment that ends at the knot
EndSlopeIsFiniteDifference ==
    HoldsCatmullRom =>
        \A i \in 1..(Len(spline.points) - 2) :
            CatmullRomSlope(spline.points, i - 1, At(spline.points, i).x)
                = FiniteDifferenceTangent(spline.points, i)

\* what the segment that starts at the knot has instead: the difference over
\* h[i-1] + 2 * h[i]
StartSlopeCountsWidthTwice ==
    HoldsCatmullRom =>
        \A i \in 1..(Len(spline.points) - 2) :
            LET pts == spline.points
                h == Sub(At(pts, i + 1).x, At(pts, i).x)
                prev_h == Sub(At(pts, i).x, At(pts, i - 1).x)
            IN  CatmullRomSlope(pts, i, At(pts, i).x)
                    = Div(Sub(At(pts, i + 1).y, At(pts, i - 1).y),
                          Add(prev_h, Mul(Int2V(2), h)))

\* the widths NaturalCubicSpline::try_new divides by when it builds b:
\* x[i+1] - x[i] and x[i] - x[i-1] for every interior i
NaturalBDivisors(raw_points) ==
    UNION {{Sub(At(raw_points, i + 1)[1], At(raw_points, i)[1]),
            Sub(At(raw_points, i)[1], At(raw_points, i - 1)[1])} :
           i \in 1..(Len(raw_points) - 2)}

\* the width HermiteSpline::try_value divides by on the segment starting at
\* points[pos]: h
HermiteDivisors(points, pos) ==
    {Sub(At(points, pos + 1).x, At(points, pos).x)}

\* the width NaturalCubicSpline::try_value divides by on the segment starting
\* at points[pos]: h
NaturalCubicDivisors(points, pos) ==
    {Sub(At(points, pos + 1).x, At(points, pos).x)}

\* the widths CatmullRomSpline::try_value divides by on the segment starting at
\* points[pos]: h, and h + next_h, h + prev_h as its branch has them
CatmullRomDivisors(points, pos) ==
    LET h == Sub(At(points, pos + 1).x, At(points, pos).x)
        branch == CatmullRomBranch(points, pos)
        with_next == IF branch \in {"first", "interior"}
                     THEN {Add(h, Sub(At(points, pos + 2).x, At(points, pos + 1).x))}
                     ELSE {}
        with_prev == IF branch \in {"last", "interior"}
                     THEN {Add(h, Sub(At(points, pos + 1).x, At(points, pos - 1).x))}
                     ELSE {}
    IN  {h} \cup with_next \cup with_prev

\* the knots' x never decreases
NonDecreasingKnots == \A i \in 2..NKnots : ~Lt(Knots[i].x, Knots[i - 1].x)

\* try_new was handed enough points whose x never decreases
ConstructedNonDecreasing ==
    Constructed /\ Len(call.arg) >= MinPoints(call.kind) /\ NonDecreasing(call.arg)

\* try_value was called on an instance of enough knots whose x never decreases
EvaluatedNonDecreasing ==
    /\ Evaluated /\ call.kind \in {"Hermite", "CatmullRom", "NaturalCubic"}
    /\ NKnots >= MinPoints(call.kind) /\ NonDecreasingKnots

\* every width try_value can divide by, whichever position the search returns,
\* is positive, and the call does not abort on a division
EvaluateDivisorsPositive ==
    EvaluatedNonDecreasing =>
        /\ ret # Panic("division by zero")
        /\ \A r \in binary_search_by(Knots, call.arg) :
              (~r.found /\ r.pos >= 1 /\ r.pos < NKnots) =>
                  \A d \in (IF call.kind = "CatmullRom"
                            THEN CatmullRomDivisors(Knots, r.pos - 1)
                            ELSE IF call.kind = "Hermite"
                            THEN HermiteDivisors(Knots, r.pos - 1)
                            ELSE NaturalCubicDivisors(Knots, r.pos - 1)) : Lt(Zero, d)

\* (C12) For every variant and every point set with non-decreasing x
\* (consecutive equal x included) that its constructor is handed and accepts,
\* every width divided by during construction or during try_value is strictly
\* positive: no division by zero is reached, so no call aborts on one.
C12_EveryWidthDivisorIsPositive ==
    /\ (ConstructedNonDecreasing /\ call.kind = "NaturalCubic" /\ ret.tag = "Ok")
          => \A d \in NaturalBDivisors(call.arg) : Lt(Zero, d)
    /\ ConstructedNonDecreasing => ret # Panic("division by zero")
    /\ EvaluateDivisorsPositive

\* the x of consecutive raw points always increases
StrictlyIncreasingRaw(raw_points) ==
    \A i \in 2..Len(raw_points) : Lt(raw_points[i - 1][1], raw_points[i][1])

\* row i of the natural system on the stored second derivatives:
\* h[i-1]/6 * z[i-1] + (h[i-1] + h[i])/3 * z[i] + h[i]/6 * z[i+1]
NaturalRow(points, i) ==
    LET h_prev == Sub(At(points, i).x, At(points, i - 1).x)
        h == Sub(At(points, i + 1).x, At(points, i).x)
    IN  Add(Add(Mul(Div(h_prev, Int2V(6)), At(points, i - 1).z),
                Mul(Div(Add(h_prev, h), Int2V(3)), At(points, i).z)),
            Mul(Div(h, Int2V(6)), At(points, i + 1).z))

\* its right-hand side: (y[i+1] - y[i]) / h[i] - (y[i] - y[i-1]) / h[i-1]
SlopeChange(points, i) ==
    Sub(Div(Sub(At(points, i + 1).y, At(points, i).y),
            Sub(At(points, i + 1).x, At(points, i).x)),
        Div(Sub(At(points, i).y, At(points, i - 1).y),
            Sub(At(points, i).x, At(points, i - 1).x)))

ConstructedNaturalCubic ==
    /\ Constructed /\ call.kind = "NaturalCubic"
    /\ Len(call.arg) >= 3 /\ StrictlyIncreasingRaw(call.arg)

\* (C13) In a natural cubic spline built from n >= 3 points with strictly
\* increasing x the stored second derivatives solve the natural system:
\* z[0] = 0, z[n-1] = 0, and row i of the system equals the change of slope at
\* x[i] for every interior i; the system built has shape (n-1, n, n-1), so
\* neither its construction nor its solve reports a shape error.
C13_StoredCurvatureSolvesNaturalSystem ==
    /\ HoldsNaturalCubic =>
          LET pts == spline.points
              n == Len(pts)
          IN  /\ At(pts, 0).z = Zero
              /\ At(pts, n - 1).z = Zero
              /\ \A i \in 1..(n - 2) : NaturalRow(pts, i) = SlopeChange(pts, i)
    /\ ConstructedNaturalCubic =>
          LET n == Len(call.arg)
              du == NaturalDu(call.arg)
              d == NaturalD(call.arg)
              dl == NaturalDl(call.arg)
              m == TridiagonalTryNew(du, d, dl)
          IN  /\ <<Len(du), Len(d), Len(dl)>> = <<n - 1, n, n - 1>>
              /\ m.tag = "Ok"
              /\ thomas(m.val.size, m.val.lower_diagonal, m.val.diagonal,
                        m.val.upper_diagonal, NaturalB(call.arg)).tag = "Ok"
              /\ ret.tag = "Ok"
              /\ ret.val = spline

\* try_new has just returned a natural cubic spline of four knots whose second
\* derivative is not zero at either interior knot
C13_Witness ==
    /\ ConstructedNaturalCubic
    /\ HoldsNaturalCubic
    /\ Len(spline.points) = 4
    /\ At(spline.points, 1).z # Zero
    /\ At(spline.points, 2).z # Zero
    /\ At(spline.points, 1).z # At(spline.points, 2).z

====
